---------------------------- MODULE Spec2Model ----------------------------
(***************************************************************************)
(* Chat-persistence backend (src/main.py): two collections of a document   *)
(* store, "chat" and "message", five data endpoints and a health endpoint. *)
(*                                                                         *)
(* Strings are TLA+ strings.  The non-ASCII characters of the literals of  *)
(* main.py are written one ASCII character per code point, so that every   *)
(* length is the length Python computes.                                   *)
(*                                                                         *)
(* Each handler is one atomic step.  The request models of main.py         *)
(* (CreateChatRequest, CreateMessageRequest) are checked by the framework  *)
(* when the body is decoded, that is before the handler body runs; a       *)
(* failure there is answered with status 422.                              *)
(*                                                                         *)
(* database.py (db, create_document, get_documents) is not part of the     *)
(* sources at hand; its three names are modelled from the specification:   *)
(* insert-and-return-id with a creation stamp, find-with-filter-and-limit. *)
(***************************************************************************)
EXTENDS Integers, Sequences, FiniteSets, TLC

VARIABLES
    db,        \* TRUE iff the module-level name db is not None
    chat,      \* the "chat" collection, in the store's natural order
    message,   \* the "message" collection, in the store's natural order
    clock,     \* the creation stamp the next inserted document gets
    req,       \* the last request received
    resp,      \* the response given to it
    returned   \* history: the messages returned by the successful
               \* add-message and completion calls so far, in call order

vars == <<db, chat, message, clock, req, resp, returned>>

(***************************************************************************)
(* Bounds of the model                                                     *)
(***************************************************************************)
MaxDocs == 3        \* documents the store may hold, both collections together

(***************************************************************************)
(* Program constants                                                       *)
(***************************************************************************)
TITLE_MAX_LENGTH == 120
CHAT_LIST_LIMIT == 100
OID_LENGTH == 24
ERROR_TEXT_LIMIT == 50
COLLECTION_NAMES_LIMIT == 10

RECURSIVE Rep(_, _)
Rep(c, n) == IF n = 0 THEN "" ELSE c \o Rep(c, n - 1)

Min(a, b) == IF a <= b THEN a ELSE b

\* Python's s[:n]
Take(s, n) == SubSeq(s, 1, Min(n, Len(s)))

HexChars == "0123456789abcdefABCDEF"
HexCharSet == {SubSeq(HexChars, i, i) : i \in 1..Len(HexChars)}

\* the n-th identifier of the store's generator: 24 hexadecimal characters,
\* the last of them the generator's counter
Oid(n) == Rep("0", OID_LENGTH - 1) \o SubSeq(HexChars, n + 1, n + 1)

(***************************************************************************)
(* Inputs of the requests                                                  *)
(***************************************************************************)
Titles == {"", "t", Rep("t", TITLE_MAX_LENGTH), Rep("t", TITLE_MAX_LENGTH + 1)}
MessageBodies == {[role |-> "user", content |-> "hello"],
                  [role |-> "user", content |-> "hi"],
                  [role |-> "assistant", content |-> "hi"],
                  [role |-> "user", content |-> ""],
                  [role |-> "system", content |-> "hi"],
                  [role |-> "system", content |-> ""]}
MalformedIds == {Rep("0", OID_LENGTH - 1), Rep("0", OID_LENGTH - 1) \o "g"}
ChatIds == {Oid(1), Oid(2)} \cup MalformedIds
ProbeErrors == {"not authorized", Rep("e", ERROR_TEXT_LIMIT + 1)}

(***************************************************************************)
(* Utility helpers and request models                                      *)
(***************************************************************************)
\* variant: only the length is looked at
ObjectIdAccepts_lengthOnly(chat_id) ==
    Len(chat_id) = OID_LENGTH

\* ObjectId(chat_id) does not raise: a str of 24 hexadecimal characters
ObjectIdAccepts(chat_id) ==
    /\ Len(chat_id) = OID_LENGTH
    /\ \A i \in 1..OID_LENGTH : SubSeq(chat_id, i, i) \in HexCharSet

\* ObjectId(...) raises.  Whether it does is evaluated once for each
\* identifier that occurs in the model: those a request can carry and those
\* the store assigns.
IdsOfModel == ChatIds \cup {Oid(n) : n \in 1..MaxDocs}
AcceptedIds == UNION {IF ObjectIdAccepts(c) THEN {c} ELSE {} : c \in IdsOfModel}
ObjectIdRaises(chat_id) == chat_id \notin AcceptedIds

\* variant: the upper limit off by one
CreateChatRequestValid_offByOne(title) ==
    /\ Len(title) >= 1
    /\ Len(title) <= TITLE_MAX_LENGTH + 1

\* CreateChatRequest: title: str = Field(..., min_length=1, max_length=120)
CreateChatRequestValid(title) ==
    /\ Len(title) >= 1
    /\ Len(title) <= TITLE_MAX_LENGTH

\* CreateMessageRequest: role: Literal["user", "assistant"]; content min_length=1
CreateMessageRequestValid(role, content) ==
    /\ role \in {"user", "assistant"}
    /\ Len(content) >= 1

(***************************************************************************)
(* Responses                                                               *)
(***************************************************************************)
Ok(body) == [status |-> 200, detail |-> "", body |-> body]
HTTPException(status_code, detail) == [status |-> status_code, detail |-> detail, body |-> <<>>]
RequestValidationError == HTTPException(422, "Unprocessable Entity")
DatabaseNotAvailable == HTTPException(500, "Database not available")

(***************************************************************************)
(* Persistence helpers (database.py)                                       *)
(***************************************************************************)
\* the identifier the store assigns to the next inserted document: unique,
\* and increasing with the generator's counter
GeneratedOids == [n \in 1..MaxDocs |-> Oid(n)]
FreshOids == IF clock <= MaxDocs THEN {GeneratedOids[clock]} ELSE {}

\* create_document(collection_name, data): stamp, insert, return the id
create_document(collection, data, oid, now) ==
    Append(collection, data @@ [_id |-> oid, created_at |-> now])

\* get_documents(collection_name, filter_dict, limit) with an empty filter
get_documents(collection, limit) == Take(collection, limit)

(***************************************************************************)
(* Cursor operations of the store client used directly by main.py          *)
(***************************************************************************)
\* .sort("created_at", direction): insertion sort on the creation stamp
RECURSIVE InsertSorted(_, _, _)
InsertSorted(d, sorted, direction) ==
    IF sorted = <<>> THEN <<d>>
    ELSE IF direction * d.created_at < direction * Head(sorted).created_at
         THEN <<d>> \o sorted
         ELSE <<Head(sorted)>> \o InsertSorted(d, Tail(sorted), direction)

RECURSIVE SortCreatedAt(_, _)
SortCreatedAt(docs, direction) ==
    IF docs = <<>> THEN <<>>
    ELSE InsertSorted(Head(docs), SortCreatedAt(Tail(docs), direction), direction)

\* db.list_collection_names(): a collection exists once it holds a document
CollectionNames ==
    (IF chat # <<>> THEN <<"chat">> ELSE <<>>) \o (IF message # <<>> THEN <<"message">> ELSE <<>>)

(***************************************************************************)
(* Initial state: the process has started, the store holds no document     *)
(***************************************************************************)
Init ==
    /\ db \in BOOLEAN
    /\ chat = <<>>
    /\ message = <<>>
    /\ clock = 1
    /\ req = [op |-> "start"]
    /\ resp = Ok(<<>>)
    /\ returned = <<>>

(***************************************************************************)
(* GET /test                                                               *)
(***************************************************************************)
CONNECTED_BUT_ERROR == "!!  Connected but Error: "

ProbeOutcomes ==
    {[raised |-> FALSE, error |-> ""]} \cup {[raised |-> TRUE, error |-> e] : e \in ProbeErrors}

\* variant: the whole error text is reported
ErrorText_whole(e) == e

\* str(e)[:50]
ErrorText(e) == Take(e, ERROR_TEXT_LIMIT)

test_database_response(probe, url_set, name_set) ==
    LET response0 == [backend |-> "+ Running",
                      database |-> "x Not Available",
                      database_url |-> "None",
                      database_name |-> "None",
                      connection_status |-> "Not Connected",
                      collections |-> <<>>]
        response1 == IF db
                     THEN [response0 EXCEPT !.database = "+ Available",
                                            !.database_url = "+ Configured",
                                            !.database_name = "db.name",
                                            !.connection_status = "Connected"]
                     ELSE [response0 EXCEPT !.database = "!!  Available but not initialized"]
        response2 == IF ~db THEN response1
                     ELSE IF probe.raised
                     THEN [response1 EXCEPT !.database =
                               CONNECTED_BUT_ERROR \o ErrorText(probe.error)]
                     ELSE [response1 EXCEPT !.collections =
                               Take(CollectionNames, COLLECTION_NAMES_LIMIT),
                                            !.database = "+ Connected & Working"]
        response3 == [response2 EXCEPT !.database_url = IF url_set THEN "+ Set" ELSE "x Not Set",
                                       !.database_name = IF name_set THEN "+ Set" ELSE "x Not Set"]
    IN  Ok(<<response3>>)

test_database(probe, url_set, name_set) ==
    /\ req' = [op |-> "test_database", probe |-> probe]
    /\ resp' = test_database_response(probe, url_set, name_set)
    /\ UNCHANGED <<db, chat, message, clock, returned>>

(***************************************************************************)
(* POST /api/chats                                                         *)
(***************************************************************************)
\* variant: a title already stored is refused
create_chat_uniqueTitles(title) ==
    /\ req' = [op |-> "create_chat", title |-> title]
    /\ IF ~CreateChatRequestValid(title)
       THEN /\ resp' = RequestValidationError
            /\ UNCHANGED <<db, chat, message, clock, returned>>
       ELSE IF ~db
       THEN /\ resp' = DatabaseNotAvailable
            /\ UNCHANGED <<db, chat, message, clock, returned>>
       ELSE IF \E i \in 1..Len(chat) : chat[i].title = title
       THEN /\ resp' = HTTPException(400, "Title already used")
            /\ UNCHANGED <<db, chat, message, clock, returned>>
       ELSE \E oid \in FreshOids :
            /\ chat' = create_document(chat, [title |-> title], oid, clock)
            /\ clock' = clock + 1
            /\ resp' = Ok(<<[id |-> oid, title |-> title]>>)
            /\ UNCHANGED <<db, message, returned>>

create_chat(title) ==
    /\ req' = [op |-> "create_chat", title |-> title]
    /\ IF ~CreateChatRequestValid(title)
       THEN /\ resp' = RequestValidationError
            /\ UNCHANGED <<db, chat, message, clock, returned>>
       ELSE IF ~db
       THEN /\ resp' = DatabaseNotAvailable
            /\ UNCHANGED <<db, chat, message, clock, returned>>
       ELSE \E oid \in FreshOids :
            /\ chat' = create_document(chat, [title |-> title], oid, clock)
            /\ clock' = clock + 1
            /\ resp' = Ok(<<[id |-> oid, title |-> title]>>)
            /\ UNCHANGED <<db, message, returned>>

(***************************************************************************)
(* GET /api/chats                                                          *)
(***************************************************************************)
ChatView(d) == [id |-> d._id, title |-> d.title]

list_chats_response ==
    IF ~db THEN DatabaseNotAvailable
    ELSE LET docs == get_documents(chat, CHAT_LIST_LIMIT)
         IN  Ok([i \in 1..Len(docs) |-> ChatView(docs[i])])

list_chats ==
    /\ req' = [op |-> "list_chats"]
    /\ resp' = list_chats_response
    /\ UNCHANGED <<db, chat, message, clock, returned>>

(***************************************************************************)
(* GET /api/chats/{chat_id}/messages                                       *)
(***************************************************************************)
MessageView(d) == [id |-> d._id, chat_id |-> d.chat_id, role |-> d.role, content |-> d.content]

\* db["message"].find({"chat_id": chat_id})
FindByChat(messages, chat_id) == SelectSeq(messages, LAMBDA d : d.chat_id = chat_id)

\* variant: newest first
list_messages_response_descending(available, messages, chat_id) ==
    IF ~available THEN DatabaseNotAvailable
    ELSE IF ObjectIdRaises(chat_id) THEN HTTPException(400, "Invalid chat id")
    ELSE LET docs == SortCreatedAt(FindByChat(messages, chat_id), -1)
         IN  Ok([i \in 1..Len(docs) |-> MessageView(docs[i])])

\* the handler's answer when db is available or not and the "message"
\* collection holds messages
list_messages_response(available, messages, chat_id) ==
    IF ~available THEN DatabaseNotAvailable
    ELSE IF ObjectIdRaises(chat_id) THEN HTTPException(400, "Invalid chat id")
    ELSE LET docs == SortCreatedAt(FindByChat(messages, chat_id), 1)
         IN  Ok([i \in 1..Len(docs) |-> MessageView(docs[i])])

list_messages(chat_id) ==
    /\ req' = [op |-> "list_messages", chat_id |-> chat_id]
    /\ resp' = list_messages_response(db, message, chat_id)
    /\ UNCHANGED <<db, chat, message, clock, returned>>

(***************************************************************************)
(* POST /api/chats/{chat_id}/messages                                      *)
(***************************************************************************)
\* variant: the identifier is checked before the store
add_message_checks_idFirst(chat_id, role) ==
    IF ObjectIdRaises(chat_id) THEN HTTPException(400, "Invalid chat id")
    ELSE IF ~db THEN DatabaseNotAvailable
    ELSE IF role \notin {"user", "assistant"} THEN HTTPException(400, "Invalid role")
    ELSE Ok(<<>>)

\* variant: the identifier is not checked
add_message_checks_noIdCheck(chat_id, role) ==
    IF ~db THEN DatabaseNotAvailable
    ELSE IF role \notin {"user", "assistant"} THEN HTTPException(400, "Invalid role")
    ELSE Ok(<<>>)

\* what the handler body answers before it inserts; status 200 means "insert"
add_message_checks(chat_id, role) ==
    IF ~db THEN DatabaseNotAvailable
    ELSE IF ObjectIdRaises(chat_id) THEN HTTPException(400, "Invalid chat id")
    ELSE IF role \notin {"user", "assistant"} THEN HTTPException(400, "Invalid role")
    ELSE Ok(<<>>)

add_message(chat_id, role, content) ==
    /\ req' = [op |-> "add_message", chat_id |-> chat_id, role |-> role, content |-> content]
    /\ IF ~CreateMessageRequestValid(role, content)
       THEN /\ resp' = RequestValidationError
            /\ UNCHANGED <<db, chat, message, clock, returned>>
       ELSE IF add_message_checks(chat_id, role).status # 200
       THEN /\ resp' = add_message_checks(chat_id, role)
            /\ UNCHANGED <<db, chat, message, clock, returned>>
       ELSE \E msg_id \in FreshOids :
            LET doc == [chat_id |-> chat_id, role |-> role, content |-> content]
                out == [id |-> msg_id, chat_id |-> chat_id, role |-> role, content |-> content]
            IN  /\ message' = create_document(message, doc, msg_id, clock)
                /\ clock' = clock + 1
                /\ resp' = Ok(<<out>>)
                /\ returned' = Append(returned, out)
                /\ UNCHANGED <<db, chat>>

(***************************************************************************)
(* POST /api/chats/{chat_id}/completion                                    *)
(***************************************************************************)
REPLY_PREFIX == "Assistant: J'ai bien recu - "

\* variant: the role is not part of the filter
FindUserMessages_anyRole(chat_id) ==
    SelectSeq(message, LAMBDA d : d.chat_id = chat_id)

\* db["message"].find({"chat_id": chat_id, "role": "user"})
FindUserMessages(chat_id) ==
    SelectSeq(message, LAMBDA d : d.chat_id = chat_id /\ d.role = "user")

\* variant: oldest first
last_user_oldest(chat_id) == Take(SortCreatedAt(FindUserMessages(chat_id), 1), 1)

\* .sort("created_at", -1).limit(1)
last_user(chat_id) == Take(SortCreatedAt(FindUserMessages(chat_id), -1), 1)

\* last_text = None; for m in last_user: last_text = m.get("content")
last_text(chat_id) ==
    LET cursor == last_user(chat_id)
    IN  IF cursor = <<>> THEN [none |-> TRUE, text |-> ""]
        ELSE [none |-> FALSE, text |-> cursor[Len(cursor)].content]

\* Python's "not last_text": None and the empty string are both false
Falsy(t) == t.none \/ t.text = ""

\* variant: the "no user message" case does not raise and stores an empty reply
completion_noRaise(chat_id) ==
    /\ req' = [op |-> "completion", chat_id |-> chat_id]
    /\ IF ~db
       THEN /\ resp' = DatabaseNotAvailable
            /\ UNCHANGED <<db, chat, message, clock, returned>>
       ELSE \E msg_id \in FreshOids :
            LET reply == REPLY_PREFIX \o last_text(chat_id).text
                doc == [chat_id |-> chat_id, role |-> "assistant", content |-> reply]
                out == [id |-> msg_id, chat_id |-> chat_id, role |-> "assistant", content |-> reply]
            IN  /\ message' = create_document(message, doc, msg_id, clock)
                /\ clock' = clock + 1
                /\ resp' = IF Falsy(last_text(chat_id))
                           THEN HTTPException(400, "No user message found")
                           ELSE Ok(<<out>>)
                /\ returned' = IF Falsy(last_text(chat_id)) THEN returned ELSE Append(returned, out)
                /\ UNCHANGED <<db, chat>>

completion(chat_id) ==
    /\ req' = [op |-> "completion", chat_id |-> chat_id]
    /\ IF ~db
       THEN /\ resp' = DatabaseNotAvailable
            /\ UNCHANGED <<db, chat, message, clock, returned>>
       ELSE IF Falsy(last_text(chat_id))
       THEN /\ resp' = HTTPException(400, "No user message found")
            /\ UNCHANGED <<db, chat, message, clock, returned>>
       ELSE \E msg_id \in FreshOids :
            LET reply == REPLY_PREFIX \o last_text(chat_id).text
                doc == [chat_id |-> chat_id, role |-> "assistant", content |-> reply]
                out == [id |-> msg_id, chat_id |-> chat_id, role |-> "assistant", content |-> reply]
            IN  /\ message' = create_document(message, doc, msg_id, clock)
                /\ clock' = clock + 1
                /\ resp' = Ok(<<out>>)
                /\ returned' = Append(returned, out)
                /\ UNCHANGED <<db, chat>>

(***************************************************************************)
(* The system                                                              *)
(***************************************************************************)
Next ==
    \/ \E probe \in ProbeOutcomes, url_set \in BOOLEAN, name_set \in BOOLEAN :
           test_database(probe, url_set, name_set)
    \/ \E title \in Titles : create_chat(title)
    \/ list_chats
    \/ \E chat_id \in ChatIds : list_messages(chat_id)
    \/ \E chat_id \in ChatIds, body \in MessageBodies :
           add_message(chat_id, body.role, body.content)
    \/ \E chat_id \in ChatIds : completion(chat_id)

Spec == Init /\ [][Next]_vars

(***************************************************************************)
(* Vocabulary of the properties                                            *)
(***************************************************************************)
DataOps == {"create_chat", "list_chats", "list_messages", "add_message", "completion"}
ClientError(r) == r.status >= 400 /\ r.status <= 499
StoreUnchanged == chat' = chat /\ message' = message

\* the messages returned by the successful creations on chat c, in call order
ReturnedFor(c) == SelectSeq(returned, LAMBDA m : m.chat_id = c)

\* the request body violates its request model
BadBody(r) ==
    \/ r.op = "create_chat" /\ (Len(r.title) = 0 \/ Len(r.title) > 120)
    \/ r.op = "add_message" /\ (r.role \notin {"user", "assistant"} \/ r.content = "")

\* the request is one that validation is to reject
InvalidRequest(r) ==
    \/ BadBody(r)
    \/ r.op = "add_message" /\ r.chat_id \in MalformedIds

\* positions of the user messages stored under chat c
UserMessagesOf(c) ==
    {i \in 1..Len(message) : message[i].chat_id = c /\ message[i].role = "user"}

\* the user message of chat c inserted last
LatestUserOf(c) ==
    message[CHOOSE i \in UserMessagesOf(c) : \A j \in UserMessagesOf(c) : j <= i]

IsAppendOfOne(before, after) ==
    /\ Len(after) = Len(before) + 1
    /\ SubSeq(after, 1, Len(before)) = before

(***************************************************************************)
(* C1: a successful list-messages on chat id c returns exactly the         *)
(* messages the successful creations on c returned, in creation order,     *)
(* with their id, chat_id, role and content, and nothing of another chat,  *)
(* whether or not a chat with that id exists.                              *)
(***************************************************************************)
C1_ListReturnsCreatedInOrder ==
    /\ (req.op = "list_messages" /\ resp.status = 200) => resp.body = ReturnedFor(req.chat_id)
    /\ (req.op = "list_messages" /\ db /\ req.chat_id \notin MalformedIds) => resp.status = 200

C1_Witness ==
    /\ req.op = "list_messages"
    /\ resp.status = 200
    /\ Len(resp.body) >= 2
    /\ \A i \in 1..Len(chat) : chat[i]._id # req.chat_id
    /\ \E i \in 1..Len(message) : message[i].chat_id # req.chat_id

(***************************************************************************)
(* C2: with the store available and at least one user message stored      *)
(* under the chat id, completion appends exactly one message, of role      *)
(* assistant and that chat_id, whose content is the fixed prefix followed  *)
(* by the content of the user message of that chat inserted last; it       *)
(* returns that message, and list-messages of the chat then ends with it,  *)
(* after that user message.                                                *)
(***************************************************************************)
C2_CompletionEchoesLastUser ==
    [][(req'.op = "completion" /\ db /\ UserMessagesOf(req'.chat_id) # {}) =>
         LET c == req'.chat_id
             u == LatestUserOf(c)
             listed == list_messages_response(db', message', c)
         IN  /\ IsAppendOfOne(message, message')
             /\ chat' = chat
             /\ message'[Len(message')].chat_id = c
             /\ message'[Len(message')].role = "assistant"
             /\ message'[Len(message')].content = REPLY_PREFIX \o u.content
             /\ resp'.status = 200
             /\ resp'.body = <<MessageView(message'[Len(message')])>>
             /\ listed.status = 200
             /\ listed.body[Len(listed.body)] = resp'.body[1]
             /\ \E i \in 1..(Len(listed.body) - 1) : listed.body[i].id = u._id
             /\ Cardinality({i \in 1..Len(listed.body) : listed.body[i] = resp'.body[1]}) = 1
      ]_vars

C2_Witness ==
    /\ req.op = "completion"
    /\ resp.status = 200
    /\ resp.body[1].content = REPLY_PREFIX \o "hi"
    /\ \E i, j \in 1..Len(message) :
          /\ i < j
          /\ message[i].chat_id = req.chat_id /\ message[i].role = "user"
          /\ message[i].content = "hello"
          /\ message[j].chat_id = req.chat_id /\ message[j].role = "user"
          /\ message[j].content = "hi"

(***************************************************************************)
(* C3: with the store available, completion on a chat id that has no       *)
(* stored user message (also when it has assistant messages only) fails    *)
(* with the client error "No user message found" and changes no            *)
(* collection.                                                             *)
(***************************************************************************)
C3_CompletionWithoutUserMessage ==
    [][(req'.op = "completion" /\ db /\ UserMessagesOf(req'.chat_id) = {}) =>
         /\ resp' = HTTPException(400, "No user message found")
         /\ StoreUnchanged
      ]_vars

C3_Witness ==
    /\ req.op = "completion"
    /\ resp.status = 400
    /\ \E i \in 1..Len(message) :
          message[i].chat_id = req.chat_id /\ message[i].role = "assistant"

(***************************************************************************)
(* C4 as stated: with the store unavailable, each of the five data         *)
(* endpoints answers the server error with the fixed message, whatever     *)
(* else is wrong with the request.                                         *)
(***************************************************************************)
C4_StoreCheckedBeforeAnything ==
    (~db /\ req.op \in DataOps) => resp = DatabaseNotAvailable

(***************************************************************************)
(* C4 amended: with the store unavailable, a request of the five data      *)
(* endpoints whose body passes its request model gets the server error     *)
(* with the fixed message, before any check of the handler body (also with *)
(* a malformed chat_id); a request whose body violates its request model   *)
(* is refused with the client error 422 when the body is decoded.          *)
(***************************************************************************)
C4_StoreCheckedBeforeHandlerChecks ==
    (~db /\ req.op \in DataOps) =>
        IF BadBody(req) THEN resp.status = 422 ELSE resp = DatabaseNotAvailable

C4_Witness ==
    /\ ~db
    /\ req.op = "add_message"
    /\ req.chat_id \in MalformedIds
    /\ ~BadBody(req)
    /\ resp = DatabaseNotAvailable

(***************************************************************************)
(* C5: a request that validation is to reject (create-chat with an empty   *)
(* title or one over 120 characters, add-message with a malformed chat_id, *)
(* a role outside {user, assistant} or empty content) never succeeds,      *)
(* changes no collection, and with the store available is answered with a  *)
(* client error.                                                           *)
(***************************************************************************)
C5_RejectedRequestsCreateNothing ==
    [][InvalidRequest(req') =>
         /\ StoreUnchanged
         /\ resp'.status # 200
         /\ ClientError(resp') \/ (~db /\ resp' = DatabaseNotAvailable)
         /\ db => ClientError(resp')
      ]_vars

C5_Witness ==
    /\ req.op = "create_chat"
    /\ Len(req.title) = 121
    /\ ClientError(resp)
    /\ chat # <<>>
    /\ message # <<>>

(***************************************************************************)
(* C6 as stated: with the store available, create-chat with a title of 1   *)
(* to 120 characters succeeds, returns the assigned id with the title, and *)
(* list-messages with the returned id succeeds with the empty list.        *)
(***************************************************************************)
C6_NewChatListsEmpty ==
    (req.op = "create_chat" /\ db /\ Len(req.title) >= 1 /\ Len(req.title) <= 120) =>
        /\ resp.status = 200
        /\ resp.body[1].title = req.title
        /\ list_messages_response(db, message, resp.body[1].id) = Ok(<<>>)

(***************************************************************************)
(* C6 amended: with the store available, create-chat with a title of 1 to  *)
(* 120 characters succeeds, appends one chat record with that title,       *)
(* returns the assigned id with the title, and list-messages with the      *)
(* returned id succeeds and returns the messages stored under that         *)
(* identifier by earlier add-message and completion calls: the empty list  *)
(* when there are none.                                                    *)
(***************************************************************************)
C6_NewChatListsItsMessages ==
    [][(req'.op = "create_chat" /\ db /\ Len(req'.title) >= 1 /\ Len(req'.title) <= 120) =>
         /\ resp'.status = 200
         /\ Len(resp'.body) = 1
         /\ resp'.body[1].title = req'.title
         /\ IsAppendOfOne(chat, chat')
         /\ chat'[Len(chat')]._id = resp'.body[1].id
         /\ chat'[Len(chat')].title = req'.title
         /\ \A i \in 1..Len(chat) : chat[i]._id # resp'.body[1].id
         /\ message' = message
         /\ LET id == resp'.body[1].id
                 listed == list_messages_response(db', message', id)
             IN  /\ listed = Ok(ReturnedFor(id))
                 /\ (\A i \in 1..Len(message) : message[i].chat_id # id) => listed = Ok(<<>>)
      ]_vars

C6_Witness ==
    /\ req.op = "create_chat"
    /\ resp.status = 200
    /\ Len(chat) = 2
    /\ message # <<>>
    /\ list_messages_response(db, message, resp.body[1].id) = Ok(<<>>)

(***************************************************************************)
(* C7: every stored message has a chat_id that is a well-formed            *)
(* identifier, a role in {user, assistant} and non-empty content, whether  *)
(* add-message or completion inserted it.                                  *)
(***************************************************************************)
C7_StoredMessagesWellFormed ==
    \A i \in 1..Len(message) :
        /\ Len(message[i].chat_id) = 24
        /\ \A k \in 1..24 : SubSeq(message[i].chat_id, k, k) \in HexCharSet
        /\ message[i].chat_id \notin MalformedIds
        /\ message[i].role \in {"user", "assistant"}
        /\ message[i].content # ""

C7_Witness ==
    /\ req.op = "completion"
    /\ resp.status = 200
    /\ message[Len(message)]._id = resp.body[1].id
    /\ message[Len(message)].role = "assistant"

(***************************************************************************)
(* C8: with the store available, completion with a malformed chat_id is    *)
(* answered with status 400 and changes no collection.                     *)
(***************************************************************************)
C8_CompletionMalformedId ==
    [][(req'.op = "completion" /\ db /\ req'.chat_id \in MalformedIds) =>
         /\ resp'.status = 400
         /\ StoreUnchanged
      ]_vars

C8_Witness ==
    /\ req.op = "completion"
    /\ req.chat_id \in MalformedIds
    /\ resp.status = 400
    /\ \E i \in 1..Len(message) : message[i].role = "user"

(***************************************************************************)
(* C9: the health endpoint answers with success and one status payload in  *)
(* each of the three cases - store absent, store present with the          *)
(* collection-names probe raising, store healthy - which differ in the     *)
(* payload; a probe error appears cut to at most 50 characters; no         *)
(* collection changes.                                                     *)
(***************************************************************************)
C9_HealthNeverFails ==
    [][req'.op = "test_database" =>
         /\ StoreUnchanged
         /\ resp'.status = 200
         /\ Len(resp'.body) = 1
         /\ LET r == resp'.body[1]
                e == req'.probe.error
            IN  /\ ~db => /\ r.database = "!!  Available but not initialized"
                          /\ r.connection_status = "Not Connected"
                /\ (db /\ req'.probe.raised) =>
                          /\ r.connection_status = "Connected"
                          /\ Len(r.database) <= Len(CONNECTED_BUT_ERROR) + 50
                          /\ r.database = CONNECTED_BUT_ERROR \o
                                 (IF Len(e) <= 50 THEN e ELSE SubSeq(e, 1, 50))
                /\ (db /\ ~req'.probe.raised) =>
                          /\ r.connection_status = "Connected"
                          /\ r.database = "+ Connected & Working"
      ]_vars

C9_Witness ==
    /\ req.op = "test_database"
    /\ db
    /\ req.probe.raised
    /\ Len(req.probe.error) > 50
    /\ resp.status = 200
    /\ message # <<>>

(***************************************************************************)
(* C10: both collections are append-only: a successful create-chat appends *)
(* one chat record, a successful add-message or completion appends one     *)
(* message record, and neither changes anything else; every other request  *)
(* (the two listings, the health endpoint, every failed request) leaves    *)
(* both collections as they are; so a stored record keeps its place, its   *)
(* id and its fields.                                                      *)
(***************************************************************************)
C10_AppendOnly ==
    [][/\ (req'.op = "create_chat" /\ resp'.status = 200) =>
              IsAppendOfOne(chat, chat') /\ message' = message
       /\ (req'.op \in {"add_message", "completion"} /\ resp'.status = 200) =>
              IsAppendOfOne(message, message') /\ chat' = chat
       /\ (req'.op \notin {"create_chat", "add_message", "completion"} \/ resp'.status # 200) =>
              StoreUnchanged
      ]_vars

C10_Witness ==
    /\ req.op = "list_chats"
    /\ resp.status = 200
    /\ Len(chat) = 1
    /\ Len(message) = 2
    /\ \E i \in 1..Len(message) : message[i].role = "assistant" /\ message[i].created_at = 3

=============================================================================
